---- MODULE Spec2Model ----
(***************************************************************************)
(* A model of rq, a command-line HTTP request tool (src/main.rs,           *)
(* src/cli.rs, src/http.rs).                                               *)
(*                                                                         *)
(* A Rust `String`/`&str` is a sequence of chars; a char is a TLA+ string  *)
(* naming it.  ASCII chars are named by themselves; "U+3000" names the     *)
(* IDEOGRAPHIC SPACE, a whitespace char whose UTF-8 encoding is 3 bytes.   *)
(* An `Option<T>` is a sequence of length at most one: <<>> is None and    *)
(* <<x>> is Some(x).  A `Result<T, E>` is [ok |-> TRUE, val |-> v] or      *)
(* [ok |-> FALSE, err |-> e].                                              *)
(***************************************************************************)
EXTENDS Integers, Sequences, FiniteSets, TLC

None == <<>>
Some(x) == <<x>>
Ok(v) == [ok |-> TRUE, val |-> v]
Err(e) == [ok |-> FALSE, err |-> e]

(***************************************************************************)
(* Chars and strings (std)                                                 *)
(***************************************************************************)
LowerLetters == <<"a", "b", "c", "d", "e", "f", "g", "h", "i", "j", "k", "l", "m",
                  "n", "o", "p", "q", "r", "s", "t", "u", "v", "w", "x", "y", "z">>
UpperLetters == <<"A", "B", "C", "D", "E", "F", "G", "H", "I", "J", "K", "L", "M",
                  "N", "O", "P", "Q", "R", "S", "T", "U", "V", "W", "X", "Y", "Z">>
Digits == {"0", "1", "2", "3", "4", "5", "6", "7", "8", "9"}

IsLower(c) == \E i \in 1..Len(LowerLetters) : LowerLetters[i] = c
IsUpper(c) == \E i \in 1..Len(UpperLetters) : UpperLetters[i] = c
IndexIn(letters, c) == CHOOSE i \in 1..Len(letters) : letters[i] = c

\* char::to_uppercase / char::to_lowercase on the chars of the model
char_to_uppercase(c) == IF IsLower(c) THEN UpperLetters[IndexIn(LowerLetters, c)] ELSE c
char_to_lowercase(c) == IF IsUpper(c) THEN LowerLetters[IndexIn(UpperLetters, c)] ELSE c

\* str::to_uppercase / str::to_lowercase
to_uppercase(s) == [i \in 1..Len(s) |-> char_to_uppercase(s[i])]
to_lowercase(s) == [i \in 1..Len(s) |-> char_to_lowercase(s[i])]

\* char::is_whitespace (Unicode White_Space)
is_whitespace(c) == c \in {" ", "\n", "U+3000"}

\* The number of bytes of a char's UTF-8 encoding
len_utf8(c) == IF c = "U+3000" THEN 3 ELSE 1

\* A mutant of str_len: the length counted in chars
str_len_chars(s) == Len(s)

\* str::len: the length in bytes
RECURSIVE str_len(_)
str_len(s) == IF s = <<>> THEN 0 ELSE len_utf8(Head(s)) + str_len(Tail(s))

\* str::starts_with
starts_with(s, prefix) ==
    /\ Len(s) >= Len(prefix)
    /\ SubSeq(s, 1, Len(prefix)) = prefix

\* s.chars().nth(n), n counted from 0
chars_nth(s, n) == IF n < Len(s) THEN Some(s[n + 1]) ELSE None

\* s.chars().filter(|c| !c.is_whitespace()).collect::<String>()
RECURSIVE filter_not_whitespace(_)
filter_not_whitespace(s) ==
    IF s = <<>> THEN <<>>
    ELSE IF is_whitespace(Head(s)) THEN filter_not_whitespace(Tail(s))
    ELSE <<Head(s)>> \o filter_not_whitespace(Tail(s))

(***************************************************************************)
(* String literals of the source                                           *)
(***************************************************************************)
S_GET == <<"G", "E", "T">>
S_POST == <<"P", "O", "S", "T">>
S_PUT == <<"P", "U", "T">>
S_DELETE == <<"D", "E", "L", "E", "T", "E">>
S_PATCH == <<"P", "A", "T", "C", "H">>
S_HEAD == <<"H", "E", "A", "D">>
S_OPTIONS == <<"O", "P", "T", "I", "O", "N", "S">>
S_text == <<"t", "e", "x", "t">>
S_text_plain == <<"t", "e", "x", "t", "/", "p", "l", "a", "i", "n">>
S_json == <<"j", "s", "o", "n">>
S_application_json ==
    <<"a", "p", "p", "l", "i", "c", "a", "t", "i", "o", "n", "/", "j", "s", "o", "n">>
S_form == <<"f", "o", "r", "m">>
S_application_x_www_form_urlencoded ==
    <<"a", "p", "p", "l", "i", "c", "a", "t", "i", "o", "n", "/", "x", "-", "w", "w", "w",
      "-", "f", "o", "r", "m", "-", "u", "r", "l", "e", "n", "c", "o", "d", "e", "d">>
S_file == <<"f", "i", "l", "e">>
S_multipart_form_data ==
    <<"m", "u", "l", "t", "i", "p", "a", "r", "t", "/", "f", "o", "r", "m", "-", "d", "a",
      "t", "a">>
S_http == <<"h", "t", "t", "p", ":", "/", "/">>
S_https == <<"h", "t", "t", "p", "s", ":", "/", "/">>
S_hyphens == <<"-", "-", "-", "-", "-">>
S_empty_object == <<"{", "}">>

(***************************************************************************)
(* http.rs: HttpMethod                                                     *)
(***************************************************************************)
HttpMethod == {"Get", "Post", "Put", "Delete", "Patch", "Head", "Options"}

UnknownMethod(textOf) == [kind |-> "UnknownMethod", text |-> textOf]
UnknownContentType(textOf) == [kind |-> "UnknownContentType", text |-> textOf]

\* impl FromStr for HttpMethod
HttpMethod_from_str(s) ==
    LET method == to_uppercase(s) IN
    CASE method = S_GET -> Ok("Get")
      [] method = S_POST -> Ok("Post")
      [] method = S_PUT -> Ok("Put")
      [] method = S_DELETE -> Ok("Delete")
      [] method = S_PATCH -> Ok("Patch")
      [] method = S_HEAD -> Ok("Head")
      [] method = S_OPTIONS -> Ok("Options")
      [] OTHER -> Err(UnknownMethod(method))

\* A mutant of HttpMethod_fmt: Patch is written as its neighbour Put
HttpMethod_fmt_patch_as_put(m) ==
    CASE m = "Get" -> S_GET
      [] m = "Post" -> S_POST
      [] m = "Put" -> S_PUT
      [] m = "Delete" -> S_DELETE
      [] m = "Patch" -> S_PUT
      [] m = "Head" -> S_HEAD
      [] m = "Options" -> S_OPTIONS

\* impl Display for HttpMethod (to_string)
HttpMethod_fmt(m) ==
    CASE m = "Get" -> S_GET
      [] m = "Post" -> S_POST
      [] m = "Put" -> S_PUT
      [] m = "Delete" -> S_DELETE
      [] m = "Patch" -> S_PATCH
      [] m = "Head" -> S_HEAD
      [] m = "Options" -> S_OPTIONS

\* impl From<HttpMethod> for reqwest::Method
reqwest_Method_from(m) ==
    CASE m = "Get" -> "reqwest::Method::GET"
      [] m = "Post" -> "reqwest::Method::POST"
      [] m = "Put" -> "reqwest::Method::PUT"
      [] m = "Delete" -> "reqwest::Method::DELETE"
      [] m = "Patch" -> "reqwest::Method::PATCH"
      [] m = "Head" -> "reqwest::Method::HEAD"
      [] m = "Options" -> "reqwest::Method::OPTIONS"

(***************************************************************************)
(* http.rs: ContentType                                                    *)
(***************************************************************************)
ContentType == {"Text", "Json", "Form", "Multipart"}

\* impl FromStr for ContentType
ContentType_from_str(s) ==
    LET content_type == to_lowercase(s) IN
    CASE content_type = S_text \/ content_type = S_text_plain -> Ok("Text")
      [] content_type = S_json \/ content_type = S_application_json -> Ok("Json")
      [] content_type = S_form \/ content_type = S_application_x_www_form_urlencoded
            -> Ok("Form")
      [] content_type = S_file \/ content_type = S_multipart_form_data -> Ok("Multipart")
      [] OTHER -> Err(UnknownContentType(content_type))

\* impl Display for ContentType (to_string)
ContentType_fmt(c) ==
    CASE c = "Text" -> S_text_plain
      [] c = "Json" -> S_application_json
      [] c = "Form" -> S_application_x_www_form_urlencoded
      [] c = "Multipart" -> S_multipart_form_data

(***************************************************************************)
(* http.rs: maybe_url_encoded                                              *)
(***************************************************************************)
\* The digits a '%' asks for
EscapeDigits == 2

\* A mutant of url_key_char: a '%' escape takes hexadecimal digits
url_key_char_hex(digits_left, c) ==
    IF digits_left > 0
    THEN IF c \in Digits \/ c \in {"a", "b", "c", "d", "e", "f", "A", "B", "C", "D", "E", "F"}
         THEN [take |-> TRUE, digits_left |-> digits_left - 1]
         ELSE [take |-> FALSE, digits_left |-> digits_left]
    ELSE CASE IsUpper(c) \/ IsLower(c) \/ c \in Digits \/ c \in {"-", ".", "_", "~"}
                -> [take |-> TRUE, digits_left |-> digits_left]
           [] c = "+" -> [take |-> TRUE, digits_left |-> digits_left]
           [] c = "%" -> [take |-> TRUE, digits_left |-> EscapeDigits]
           [] OTHER -> [take |-> FALSE, digits_left |-> digits_left]

\* The closure of take_while: whether c is taken, and digits_left after it
url_key_char(digits_left, c) ==
    IF digits_left > 0
    THEN IF c \in Digits
         THEN [take |-> TRUE, digits_left |-> digits_left - 1]
         ELSE [take |-> FALSE, digits_left |-> digits_left]
    ELSE CASE IsUpper(c) \/ IsLower(c) \/ c \in Digits \/ c \in {"-", ".", "_", "~"}
                -> [take |-> TRUE, digits_left |-> digits_left]
           [] c = "+" -> [take |-> TRUE, digits_left |-> digits_left]
           [] c = "%" -> [take |-> TRUE, digits_left |-> EscapeDigits]
           [] OTHER -> [take |-> FALSE, digits_left |-> digits_left]

\* s.chars().take_while(closure).count(), from `taken` chars already taken:
\* the count and digits_left when the iteration stops
RECURSIVE url_take_while(_, _, _)
url_take_while(s, taken, digits_left) ==
    IF taken >= Len(s)
    THEN [key_len |-> taken, digits_left |-> digits_left]
    ELSE LET r == url_key_char(digits_left, s[taken + 1]) IN
         IF r.take
         THEN url_take_while(s, taken + 1, r.digits_left)
         ELSE [key_len |-> taken, digits_left |-> r.digits_left]

maybe_url_encoded(s) ==
    LET r == url_take_while(s, 0, 0) IN
    IF r.key_len = 0 \/ r.digits_left > 0
    THEN FALSE
    ELSE Some("=") = chars_nth(s, r.key_len)

(***************************************************************************)
(* http.rs: maybe_json                                                     *)
(***************************************************************************)
\* The empty-object check applies to strings shorter than this
EmptyObjectLen == 20

NoFlags ==
    [open_bracket_found |-> FALSE, open_quote_found |-> FALSE,
     close_quote_found |-> FALSE, colon_found |-> FALSE]

\* macro match_or_stop_if_not_found_yet, entered with the flag unset:
\* the flags after it and the value the closure returns
match_or_stop_if_not_found_yet(flags, actual_char, expected_char, flag) ==
    IF actual_char = expected_char
    THEN [flags |-> [flags EXCEPT ![flag] = TRUE], take |-> TRUE]
    ELSE [flags |-> flags, take |-> FALSE]

\* A mutant of json_closure: the colon after the key is not asked for
json_closure_no_colon(flags, c) ==
    IF is_whitespace(c) THEN [flags |-> flags, take |-> TRUE]
    ELSE IF ~flags.open_bracket_found
    THEN match_or_stop_if_not_found_yet(flags, c, "{", "open_bracket_found")
    ELSE IF ~flags.open_quote_found
    THEN match_or_stop_if_not_found_yet(flags, c, "\"", "open_quote_found")
    ELSE IF ~flags.close_quote_found
    THEN [flags |-> IF c = "\"" THEN [flags EXCEPT !.close_quote_found = TRUE,
                                                    !.colon_found = TRUE]
                    ELSE flags,
          take |-> TRUE]
    ELSE [flags |-> flags, take |-> FALSE]

\* The closure of take_while in maybe_json
json_closure(flags, c) ==
    IF is_whitespace(c) THEN [flags |-> flags, take |-> TRUE]
    ELSE IF ~flags.open_bracket_found
    THEN match_or_stop_if_not_found_yet(flags, c, "{", "open_bracket_found")
    ELSE IF ~flags.open_quote_found
    THEN match_or_stop_if_not_found_yet(flags, c, "\"", "open_quote_found")
    ELSE IF ~flags.close_quote_found
    THEN [flags |-> IF c = "\"" THEN [flags EXCEPT !.close_quote_found = TRUE]
                    ELSE flags,
          take |-> TRUE]
    ELSE IF ~flags.colon_found
    THEN match_or_stop_if_not_found_yet(flags, c, ":", "colon_found")
    ELSE [flags |-> flags, take |-> FALSE]

\* s.chars().take_while(closure).count(): the flags when the iteration stops
RECURSIVE json_take_while(_, _, _)
json_take_while(s, taken, flags) ==
    IF taken >= Len(s)
    THEN flags
    ELSE LET r == json_closure(flags, s[taken + 1]) IN
         IF r.take THEN json_take_while(s, taken + 1, r.flags) ELSE r.flags

\* The check for the empty object in a short string
is_short_empty_object(s) ==
    str_len(s) < EmptyObjectLen /\ filter_not_whitespace(s) = S_empty_object

\* The scan for `{"key":`
json_scan(s) ==
    LET f == json_take_while(s, 0, NoFlags) IN
    f.open_bracket_found /\ f.open_quote_found /\ f.close_quote_found /\ f.colon_found

maybe_json(s) == IF is_short_empty_object(s) THEN TRUE ELSE json_scan(s)

(***************************************************************************)
(* http.rs: is_multipart, guess_content_type                               *)
(***************************************************************************)
\* A mutant of is_multipart: four hyphens are enough
is_multipart_four(s) == starts_with(s, <<"-", "-", "-", "-">>)

is_multipart(s) == starts_with(s, S_hyphens)

\* A mutant of guess_content_type: multipart is tried before URL encoded
guess_content_type_multipart_first(s) ==
    IF maybe_json(s) THEN "Json"
    ELSE IF is_multipart(s) THEN "Multipart"
    ELSE IF maybe_url_encoded(s) THEN "Form"
    ELSE "Text"

guess_content_type(s) ==
    IF maybe_json(s) THEN "Json"
    ELSE IF maybe_url_encoded(s) THEN "Form"
    ELSE IF is_multipart(s) THEN "Multipart"
    ELSE "Text"

(***************************************************************************)
(* cli.rs, main.rs: the program                                            *)
(***************************************************************************)
VARIABLES
    pc,        \* where the run is
    argv,      \* the command line: the texts of -m, -t, -d and the URL
    cli,       \* Option<CliArgs>: what cli::args returned
    error,     \* Option<http::Error>: the error a parser returned
    sent,      \* the requests handed to the transport, in order
    body,      \* a body given to the guesser
    verdict,   \* Option of what the heuristics and the guesser said of body
    parsed,    \* Option of the parsers' results for argv's texts
    shown,     \* Option of the parsed values written back with Display
    reparsed   \* Option of the parsers' results for the written texts

vars == <<pc, argv, cli, error, sent, body, verdict, parsed, shown, reparsed>>

NoArgv == [method |-> None, content_type |-> None, data |-> None, url |-> <<>>]

\* CliArgs::from_args (structopt): every field parsed with its FromStr, -m
\* defaulting to "GET".  The outcomes: the CliArgs, or the error of a text
\* that does not parse (of either, when neither does: the first on the
\* command line, which argv does not order).
from_args(a) ==
    LET method == HttpMethod_from_str(IF a.method = None THEN S_GET ELSE a.method[1])
        content_type == IF a.content_type = None THEN None
                        ELSE Some(ContentType_from_str(a.content_type[1]))
        errors == (IF method.ok THEN {} ELSE {Err(method.err)})
                  \cup (IF content_type = None \/ content_type[1].ok
                        THEN {} ELSE {Err(content_type[1].err)})
    IN IF errors # {}
       THEN errors
       ELSE {Ok([method |-> method.val,
                 content_type |-> IF content_type = None THEN None
                                  ELSE Some(content_type[1].val),
                 data |-> a.data,
                 url |-> a.url])}

\* A mutant of args_guess: the guess is made whenever a body is given
args_guess_always(a) ==
    IF a.data # None
    THEN [a EXCEPT !.content_type = Some(guess_content_type(a.data[1]))]
    ELSE a

\* cli::args, after from_args: guess the content type if not provided
args_guess(a) ==
    IF a.data # None /\ a.content_type = None
    THEN [a EXCEPT !.content_type = Some(guess_content_type(a.data[1]))]
    ELSE a

\* cli::args, the end: the scheme is put before a URL that has none
args_url(a) ==
    IF ~starts_with(a.url, S_http) /\ ~starts_with(a.url, S_https)
    THEN [a EXCEPT !.url = S_http \o a.url]
    ELSE a

\* cli::args; a text that does not parse ends the process in from_args
Args ==
    /\ pc = "start"
    /\ \E r \in from_args(argv) :
        IF r.ok
        THEN /\ cli' = Some(args_url(args_guess(r.val)))
             /\ pc' = "resolved"
             /\ error' = error
        ELSE /\ error' = Some(r.err)
             /\ pc' = "exited"
             /\ cli' = cli
    /\ UNCHANGED <<argv, sent, body, verdict, parsed, shown, reparsed>>

\* client.request(args.method.into(), args.url): the RequestBuilder that is sent
request(a) ==
    [method |-> reqwest_Method_from(a.method), url |-> a.url, headers |-> {}, body |-> None]

\* main, after cli::args: create_client may fail; the request is sent once,
\* and the transport or the reading of the response may fail
Main ==
    /\ pc = "resolved"
    /\ \E outcome \in {"client_err", "send_err", "text_err", "printed"} :
        IF outcome = "client_err"
        THEN /\ sent' = sent
             /\ pc' = "failed"
        ELSE /\ sent' = Append(sent, request(cli[1]))
             /\ pc' = IF outcome = "printed" THEN "done" ELSE "failed"
    /\ UNCHANGED <<argv, cli, error, body, verdict, parsed, shown, reparsed>>

(***************************************************************************)
(* The inputs of the program                                               *)
(***************************************************************************)
\* The strings over `alphabet` of at most n chars
Strings(alphabet, n) == UNION {[1..k -> alphabet] : k \in 0..n}

\* The longest body of a command line
MaxDataLen == 3

DataAlphabet == {"{", "}", "a", "="}

ArgvMethods ==
    {None, Some(S_GET), Some(<<"g", "e", "t">>), Some(<<"P", "o", "s", "t">>),
     Some(S_DELETE), Some(<<"f", "o", "o">>), Some(<<>>)}

ArgvContentTypes ==
    {None, Some(S_json), Some(<<"J", "S", "O", "N">>), Some(S_text_plain), Some(S_form),
     Some(S_file), Some(<<"m", "u", "l", "t", "i", "p", "a", "r", "t">>),
     Some(<<"x", "m", "l">>)}

ArgvData == {None} \cup {Some(d) : d \in Strings(DataAlphabet, MaxDataLen)}

ArgvUrls == {<<"h">>, S_http \o <<"h">>, S_https \o <<"h">>, <<"h", "t", "t", "p", ":", "/">>}

Init ==
    /\ pc = "start"
    /\ argv \in [method : ArgvMethods, content_type : ArgvContentTypes,
                 data : ArgvData, url : ArgvUrls]
    /\ cli = None
    /\ error = None
    /\ sent = <<>>
    /\ body = <<>>
    /\ verdict = None
    /\ parsed = None
    /\ shown = None
    /\ reparsed = None

Next == Args \/ Main

Spec == Init /\ [][Next]_vars

(***************************************************************************)
(* The guesser alone: a body is drawn and the heuristics are applied to it *)
(***************************************************************************)
Idle ==
    /\ argv = NoArgv
    /\ cli = None
    /\ error = None
    /\ sent = <<>>

\* maybe_json, maybe_url_encoded, is_multipart and guess_content_type of body
Guess ==
    /\ pc = "body"
    /\ verdict' = Some([json |-> maybe_json(body),
                        url_encoded |-> maybe_url_encoded(body),
                        multipart |-> is_multipart(body),
                        guess |-> guess_content_type(body)])
    /\ pc' = "guessed"
    /\ UNCHANGED <<argv, cli, error, sent, body, parsed, shown, reparsed>>

NextGuess == Guess

InitBody(bodies) ==
    /\ pc = "body"
    /\ body \in bodies
    /\ verdict = None
    /\ parsed = None
    /\ shown = None
    /\ reparsed = None
    /\ Idle

\* Bodies of every category: the chars the three heuristics tell apart, after
\* nothing or after a run of hyphens around the length is_multipart asks for
MaxGuessLen == 4

GuessAlphabet == {" ", "{", "}", "\"", ":", "a", "1", "%", "=", "-"}

GuessPrefixes == {<<>>, <<"-", "-", "-", "-">>, S_hyphens}

GuessBodies == {p \o t : p \in GuessPrefixes, t \in Strings(GuessAlphabet, MaxGuessLen)}

InitGuess == InitBody(GuessBodies)

SpecGuess == InitGuess /\ [][NextGuess]_vars

\* Bodies for maybe_url_encoded: every kind of key char, '%', '=', and chars
\* that end a key
MaxUrlLen == 4

UrlAlphabet == {"a", "Z", "0", "9", "-", ".", "_", "~", "+", "%", "=", "#", " "}

InitUrl == InitBody(Strings(UrlAlphabet, MaxUrlLen))

SpecUrl == InitUrl /\ [][NextGuess]_vars

\* Bodies for the scan of maybe_json
MaxJsonLen == 6

JsonAlphabet == {" ", "{", "}", "\"", ":", "a"}

InitJson == InitBody(Strings(JsonAlphabet, MaxJsonLen))

SpecJson == InitJson /\ [][NextGuess]_vars

\* Bodies for the empty-object check of maybe_json: `{` and `}` with whitespace
\* before, between and after them, of one byte and of three bytes a char
MaxNarrowPad == 20
MaxWidePad == 7

Repeat(c, n) == [i \in 1..n |-> c]

Pads == {Repeat(" ", i) \o Repeat("U+3000", j) : i \in 0..MaxNarrowPad, j \in 0..MaxWidePad}

ShortPads == {<<>>, <<" ">>, <<"U+3000">>, <<"\n", " ">>}

EmptyObjectBodies ==
    {p \o <<"{">> \o q \o <<"}">> \o r : p \in Pads, q \in ShortPads, r \in ShortPads}

InitEmptyObject == InitBody(EmptyObjectBodies)

SpecEmptyObject == InitEmptyObject /\ [][NextGuess]_vars

(***************************************************************************)
(* The parsers alone: the texts of -m and -t are drawn, parsed, written    *)
(* back with Display and parsed again                                      *)
(***************************************************************************)
\* s with the case of its i-th char changed
FlipCase(s, i) ==
    [s EXCEPT ![i] = IF IsLower(s[i]) THEN char_to_uppercase(s[i])
                     ELSE char_to_lowercase(s[i])]

CaseVariants(s) == {s, to_uppercase(s), to_lowercase(s)} \cup {FlipCase(s, i) : i \in 1..Len(s)}

MethodNames == {S_GET, S_POST, S_PUT, S_DELETE, S_PATCH, S_HEAD, S_OPTIONS}

MethodTexts ==
    UNION {CaseVariants(s) : s \in MethodNames}
    \cup CaseVariants(<<"f", "o", "o">>)
    \cup {<<>>, <<"G", "E">>, <<"G", "E", "T", "S">>, <<" ", "G", "E", "T">>,
          <<"T", "R", "A", "C", "E">>, <<"c", "o", "n", "n", "e", "c", "t">>}

ContentTypeNames ==
    {S_text, S_text_plain, S_json, S_application_json, S_form,
     S_application_x_www_form_urlencoded, S_file, S_multipart_form_data}

ContentTypeTexts ==
    UNION {CaseVariants(s) : s \in ContentTypeNames}
    \cup CaseVariants(<<"m", "u", "l", "t", "i", "p", "a", "r", "t">>)
    \cup CaseVariants(<<"x", "m", "l">>)
    \cup {<<>>, <<"t", "e", "x", "t", "/", "h", "t", "m", "l">>,
          <<"j", "s", "o", "n", " ">>, <<"X", "M", "L">>}

InitParse ==
    /\ pc = "texts"
    /\ argv \in [method : {Some(t) : t \in MethodTexts},
                 content_type : {Some(t) : t \in ContentTypeTexts},
                 data : {None}, url : {<<>>}]
    /\ cli = None
    /\ error = None
    /\ sent = <<>>
    /\ body = <<>>
    /\ verdict = None
    /\ parsed = None
    /\ shown = None
    /\ reparsed = None

\* <HttpMethod as FromStr>::from_str and <ContentType as FromStr>::from_str
Parse ==
    /\ pc = "texts"
    /\ parsed' = Some([method |-> HttpMethod_from_str(argv.method[1]),
                       content_type |-> ContentType_from_str(argv.content_type[1])])
    /\ pc' = "parsed"
    /\ UNCHANGED <<argv, cli, error, sent, body, verdict, shown, reparsed>>

\* to_string of the values parsed, when both texts parsed
Show ==
    /\ pc = "parsed"
    /\ parsed[1].method.ok /\ parsed[1].content_type.ok
    /\ shown' = Some([method |-> HttpMethod_fmt(parsed[1].method.val),
                      content_type |-> ContentType_fmt(parsed[1].content_type.val)])
    /\ pc' = "shown"
    /\ UNCHANGED <<argv, cli, error, sent, body, verdict, parsed, reparsed>>

\* from_str of the strings written
Reparse ==
    /\ pc = "shown"
    /\ reparsed' = Some([method |-> HttpMethod_from_str(shown[1].method),
                         content_type |-> ContentType_from_str(shown[1].content_type)])
    /\ pc' = "reparsed"
    /\ UNCHANGED <<argv, cli, error, sent, body, verdict, parsed, shown>>

NextParse == Parse \/ Show \/ Reparse

SpecParse == InitParse /\ [][NextParse]_vars

(***************************************************************************)
(* Properties                                                              *)
(***************************************************************************)
\* The length of s in bytes: every char is one byte but "U+3000", which is three
ByteLength(s) == Len(s) + 2 * Cardinality({i \in 1..Len(s) : s[i] = "U+3000"})

NotWhitespace(c) == ~is_whitespace(c)

\* s with its whitespace removed
Squeezed(s) == SelectSeq(s, NotWhitespace)

\* The number of hyphens s starts with
RECURSIVE LeadingHyphens(_)
LeadingHyphens(s) ==
    IF s # <<>> /\ Head(s) = "-" THEN 1 + LeadingHyphens(Tail(s)) ELSE 0

\* The request the transport was handed, once main has made its call
Handed == pc \in {"done", "failed"} /\ sent # <<>>

\* C1: the one transport call carries the method and the URL of the resolved
\* RequestSpec, its body (when it has one) as the payload, and its content
\* type (when it has one) as a Content-Type header holding the canonical MIME
\* string.
C1_TransportCarriesSpec ==
    Handed =>
        /\ Len(sent) = 1
        /\ sent[1].method = reqwest_Method_from(cli[1].method)
        /\ sent[1].url = cli[1].url
        /\ (cli[1].data # None => sent[1].body = cli[1].data)
        /\ (cli[1].content_type # None =>
                <<"Content-Type", ContentType_fmt(cli[1].content_type[1])>>
                    \in sent[1].headers)

\* C2: after cli::args, a body always comes with a content type: the one
\* supplied when one was supplied, the guess for the body otherwise; without a
\* body the content type is what was supplied (unset stays unset); the body
\* and the method are those of the command line.
C2_BuilderResolvesContentType ==
    cli # None =>
        LET a == cli[1] IN
        /\ a.data = argv.data
        /\ a.method = HttpMethod_from_str(IF argv.method = None THEN S_GET
                                          ELSE argv.method[1]).val
        /\ (argv.data # None => a.content_type # None)
        /\ (argv.content_type # None =>
                a.content_type = Some(ContentType_from_str(argv.content_type[1]).val))
        /\ (argv.content_type = None /\ argv.data # None =>
                a.content_type = Some(guess_content_type(argv.data[1])))
        /\ (argv.content_type = None /\ argv.data = None => a.content_type = None)

\* C2's case: a body and a supplied content type that is not the guess for it
C2_Witness ==
    /\ cli # None
    /\ argv.data # None
    /\ argv.content_type # None
    /\ cli[1].content_type # Some(guess_content_type(argv.data[1]))

\* The first of the categories, in the order Json, Form, Multipart, that accepts
FirstMatch(json, url_encoded, multipart) ==
    IF json THEN "Json"
    ELSE IF url_encoded THEN "Form"
    ELSE IF multipart THEN "Multipart"
    ELSE "Text"

\* C3: the guess is the first match in the order Json, Form, Multipart, Text
\* otherwise, where Multipart is a body starting with five or more hyphens;
\* it is always one of the four variants.
C3_GuessIsFirstMatch ==
    verdict # None =>
        LET v == verdict[1] IN
        /\ v.guess \in ContentType
        /\ v.multipart = (LeadingHyphens(body) >= 5)
        /\ v.guess = FirstMatch(v.json, v.url_encoded, v.multipart)
        /\ (body = <<"{", "}">> => v.guess = "Json")
        /\ (body = <<"a", "=", "1">> => v.guess = "Form")
        /\ (body = <<"-", "-", "-", "-", "-", "a">> => v.guess = "Multipart")
        /\ (body = <<"a", " ", "a">> => v.guess = "Text")

\* C3's case: a body two heuristics accept, given the earlier category
C3_Witness ==
    /\ verdict # None
    /\ verdict[1].url_encoded
    /\ verdict[1].multipart
    /\ verdict[1].guess = "Form"

KeyChar(c) == IsUpper(c) \/ IsLower(c) \/ c \in Digits \/ c \in {"-", ".", "_", "~", "+"}

\* Whether s[i..n] is a run of key chars and complete escapes, '%' and two digits
RECURSIVE KeyRun(_, _, _)
KeyRun(s, i, n) ==
    IF i > n THEN TRUE
    ELSE IF s[i] = "%"
    THEN i + 2 <= n /\ s[i + 1] \in Digits /\ s[i + 2] \in Digits /\ KeyRun(s, i + 3, n)
    ELSE KeyChar(s[i]) /\ KeyRun(s, i + 1, n)

\* s is a non-empty run of key chars and complete escapes, then '='
KeyThenEquals(s) ==
    \E n \in 1..(Len(s) - 1) : s[n + 1] = "=" /\ KeyRun(s, 1, n)

\* C5: a body looks URL encoded if and only if it starts with a non-empty run
\* of key chars whose '%' escapes are complete, followed at once by '='.
C5_UrlEncodedIffKeyThenEquals ==
    verdict # None =>
        /\ verdict[1].url_encoded = KeyThenEquals(body)
        /\ (body = <<>> => ~verdict[1].url_encoded)
        /\ (body # <<>> /\ ~KeyChar(body[1]) /\ body[1] # "%" => ~verdict[1].url_encoded)
        /\ ((\A i \in 1..Len(body) : body[i] # "=") => ~verdict[1].url_encoded)

\* C5's case: an accepted body whose key holds an escape
C5_Witness ==
    /\ verdict # None
    /\ verdict[1].url_encoded
    /\ \E i \in 1..Len(body) : body[i] = "%" /\ \A j \in 1..i : body[j] # "="

\* Whether text is name up to the case of its letters
EqualsIgnoreCase(textOf, name) ==
    /\ Len(textOf) = Len(name)
    /\ \A i \in 1..Len(name) : char_to_lowercase(textOf[i]) = char_to_lowercase(name[i])

\* C6: a method text that is none of the seven names, whatever its case, gives
\* UnknownMethod with the text as supplied; a content-type text that is no
\* alias and no MIME token gives UnknownContentType with the text as supplied;
\* a recognized text gives no error.
C6_ErrorsCarryInput ==
    parsed # None =>
        LET m == argv.method[1]
            t == argv.content_type[1] IN
        /\ IF \E name \in MethodNames : EqualsIgnoreCase(m, name)
           THEN parsed[1].method.ok
           ELSE parsed[1].method = Err(UnknownMethod(m))
        /\ IF \E name \in ContentTypeNames : EqualsIgnoreCase(t, name)
           THEN parsed[1].content_type.ok
           ELSE parsed[1].content_type = Err(UnknownContentType(t))

\* The values the help of --type lists, each with the content type it names
HelpContentTypes ==
    {<<S_text, "Text">>, <<S_json, "Json">>, <<S_form, "Form">>,
     <<(<<"m", "u", "l", "t", "i", "p", "a", "r", "t">>), "Multipart">>}

\* C7: every value the help of --type lists is parsed to the content type the
\* help names for it.
C7_HelpValuesAccepted ==
    parsed # None =>
        \A h \in HelpContentTypes :
            argv.content_type[1] = h[1] => parsed[1].content_type = Ok(h[2])

\* C8: a method or a content type written with Display and parsed again is
\* itself; so the strings written are pairwise distinct.
C8_RoundTrip ==
    /\ reparsed # None =>
        /\ reparsed[1].method = Ok(parsed[1].method.val)
        /\ reparsed[1].content_type = Ok(parsed[1].content_type.val)
    /\ \A m \in HttpMethod : HttpMethod_from_str(HttpMethod_fmt(m)) = Ok(m)
    /\ \A c \in ContentType : ContentType_from_str(ContentType_fmt(c)) = Ok(c)
    /\ \A m1, m2 \in HttpMethod : HttpMethod_fmt(m1) = HttpMethod_fmt(m2) => m1 = m2
    /\ \A c1, c2 \in ContentType : ContentType_fmt(c1) = ContentType_fmt(c2) => c1 = c2

\* C8's case: values reached from texts that are not their canonical strings
C8_Witness ==
    /\ reparsed # None
    /\ parsed[1].method.val = "Patch"
    /\ parsed[1].content_type.val = "Multipart"
    /\ argv.content_type[1] = S_file
    /\ shown[1].content_type # argv.content_type[1]
    /\ reparsed[1].content_type = Ok("Multipart")

\* The state machine: the state after char c in state q
MachineStep(q, c) ==
    CASE q \in {"Done", "Fail"} -> q
      [] q = "InKeyAwaitingCloseQuote" -> IF c = "\"" THEN "SeekColon" ELSE q
      [] is_whitespace(c) -> q
      [] q = "SeekOpenBrace" -> IF c = "{" THEN "SeekOpenQuote" ELSE "Fail"
      [] q = "SeekOpenQuote" -> IF c = "\"" THEN "InKeyAwaitingCloseQuote" ELSE "Fail"
      [] q = "SeekColon" -> IF c = ":" THEN "Done" ELSE "Fail"

RECURSIVE MachineRun(_, _)
MachineRun(q, s) == IF s = <<>> THEN q ELSE MachineRun(MachineStep(q, Head(s)), Tail(s))

\* s is ws* { ws* " (chars other than ") " ws* : and anything
ObjectKeyColon(s) ==
    \E i, j, k, l \in 1..Len(s) :
        /\ i < j /\ j < k /\ k < l
        /\ s[i] = "{" /\ s[j] = "\"" /\ s[k] = "\"" /\ s[l] = ":"
        /\ \A x \in 1..(i - 1) : is_whitespace(s[x])
        /\ \A x \in (i + 1)..(j - 1) : is_whitespace(s[x])
        /\ \A x \in (j + 1)..(k - 1) : s[x] # "\""
        /\ \A x \in (k + 1)..(l - 1) : is_whitespace(s[x])

\* The check for the short empty object applies to s
ShortEmptyObject(s) == ByteLength(s) < 20 /\ Squeezed(s) = <<"{", "}">>

\* C9: where the check for the short empty object does not apply, maybe_json
\* is the state machine SeekOpenBrace -> SeekOpenQuote ->
\* InKeyAwaitingCloseQuote -> SeekColon -> Done: true iff Done is reached, iff
\* the body is ws* { ws* "key" ws* : and anything; what follows the colon
\* changes nothing.
C9_ScanIsStateMachine ==
    (verdict # None /\ ~ShortEmptyObject(body)) =>
        /\ verdict[1].json = (MachineRun("SeekOpenBrace", body) = "Done")
        /\ verdict[1].json = ObjectKeyColon(body)
        /\ (verdict[1].json => \A c \in JsonAlphabet : maybe_json(body \o <<c>>))

\* C9's case: an accepted body with whitespace in it and chars after the colon
C9_Witness ==
    /\ verdict # None
    /\ ~ShortEmptyObject(body)
    /\ verdict[1].json
    /\ \E i \in 1..Len(body) : is_whitespace(body[i])
    /\ body[Len(body)] = "a"

\* C10: no body is accepted as JSON and as URL encoded, none as JSON and as
\* multipart; a body accepted as URL encoded and as multipart is guessed Form.
C10_OnlyFormAndMultipartOverlap ==
    verdict # None =>
        LET v == verdict[1] IN
        /\ ~(v.json /\ v.url_encoded)
        /\ ~(v.json /\ v.multipart)
        /\ (v.url_encoded /\ v.multipart => v.guess = "Form")

\* C10's case: five hyphens or more, key chars and '='
C10_Witness ==
    /\ verdict # None
    /\ verdict[1].url_encoded
    /\ verdict[1].multipart
    /\ ~verdict[1].json
    /\ LeadingHyphens(body) >= 5
    /\ \E i \in 6..Len(body) : body[i] = "=" /\ \E j \in 6..(i - 1) : body[j] = "a"

====
